---- MODULE Spec2Model ----
(***************************************************************************)
(* Maze generation and solving engine of python-maze-solver.               *)
(*                                                                         *)
(* A grid is maze[y][x] with 1 = wall and 0 = passage, a position is the   *)
(* pair <<x, y>>.  Every generator and every solver of                     *)
(* algorithms/maze_algorithms.py and generators/prim_generator.py is a     *)
(* state machine over the variables below; each has a specification of     *)
(* its own (SpecDFSGen, SpecBFSGen, ...) that draws the call's arguments   *)
(* in its initial states.                                                  *)
(***************************************************************************)
EXTENDS Integers, Sequences, FiniteSets, TLC

VARIABLES
    alg,        \* the routine that is running
    pc,         \* its position: "start", "run", "done"
    width,      \* generate(width, height) / len(maze[0])
    height,     \* generate(width, height) / len(maze)
    maze,       \* maze[y][x]
    stack,      \* call stack of carve_path / dfs: the frames, innermost last
    queue,      \* collections.deque of the BFS routines
    visited,    \* visited set of the BFS generator and of the solvers
    open_set,   \* heapq list of the A* routines, in insertion order
    came_from,  \* A* generator: predecessor of each discovered cell
    g_score,    \* A* generator: carve steps to each discovered cell
    f_score,    \* A* generator: g + heuristic
    closed_set, \* A* solver: cells already expanded
    walls,      \* Prim (maze_algorithms.py): the wall list
    frontier,   \* Prim (prim_generator.py): the frontier list
    start,      \* start cell (generators: the seed cell; solvers: argument)
    end,        \* end cell (A* generator target; solvers: argument)
    path,       \* path list under construction (DFS and Prim solvers)
    result,     \* value returned by solve, NoResult until it returns
    state,      \* app.py: the global MazeState; NoState outside the application
    history     \* what an observer has seen: of the A* generator, the cells heappop
                \* has returned in this call, and what earlier calls returned
                \* (popped, returned); of the application, the Generate
                \* calls accepted and the replacements of state.maze since
                \* the last Reset (generates, replaced)

vars == <<alg, pc, width, height, maze, stack, queue, visited, open_set,
          came_from, g_score, f_score, closed_set, walls, frontier,
          start, end, path, result, state, history>>

----------------------------------------------------------------------------
(* Bounds of the model.                                                    *)

\* largest width / height handed to DFSMazeGenerator.generate
MaxDFSGenW == 5
MaxDFSGenH == 5

\* largest width / height handed to BFSMazeGenerator.generate
MaxBFSGenW == 6
MaxBFSGenH == 6

\* largest width / height handed to AStarMazeGenerator.generate
MaxAStarGenW == 8
MaxAStarGenH == 8

\* largest width / height handed to PrimMazeGenerator.generate of
\* algorithms/maze_algorithms.py
MaxWallPrimW == 7
MaxWallPrimH == 7

\* largest width / height handed to PrimMazeGenerator.generate of
\* generators/prim_generator.py
MaxPrimW == 5
MaxPrimH == 5

\* largest state.width / state.height of the application: the default grid
\* of app.py scaled down
MaxAppW == 6
MaxAppH == 6

\* largest len(maze[0]) / len(maze) and largest number of cells of the grids
\* handed to the solvers
MaxSolveW == 3
MaxSolveH == 3
MaxSolveCells == 9

----------------------------------------------------------------------------
(* Cells, grids and directions.                                            *)

WALL == 1
PASSAGE == 0

NoResult == "none"
NoPos == <<-1, -1>>
NoState == "none"
NoHistory == [popped |-> <<>>, returned |-> <<>>, generates |-> 0, replaced |-> 0]

\* Python's None where a grid or a path is expected
None == <<"None">>

\* [[1 for _ in range(width)] for _ in range(height)]
WallGrid(w, h) == [y \in 0..(h - 1) |-> [x \in 0..(w - 1) |-> WALL]]

\* 0 <= x < width and 0 <= y < height
InBounds(x, y, w, h) == 0 <= x /\ x < w /\ 0 <= y /\ y < h

\* maze[y][x] = 0
Carve(m, x, y) == [m EXCEPT ![y][x] = PASSAGE]

\* the one-step moves of the solvers in place of the two-step moves
GenDirectionsOneStep == << <<0, 1>>, <<1, 0>>, <<0, -1>>, <<-1, 0>> >>

\* [(0, 2), (2, 0), (0, -2), (-2, 0)]: the two-step moves of the generators
GenDirections == << <<0, 2>>, <<2, 0>>, <<0, -2>>, <<-2, 0>> >>

\* [(0, 1), (1, 0), (0, -1), (-1, 0)]: the one-step moves of the solvers
SolveDirections == << <<0, 1>>, <<1, 0>>, <<0, -1>>, <<-1, 0>> >>

\* Python's floor division by two (dy // 2 with dy in {-2, 0, 2}, and the
\* midpoint (a + b) // 2 of coordinates that are >= 0)
FloorHalf(n) == IF n >= 0 THEN n \div 2 ELSE -((-n) \div 2)

\* range(lo, hi, 2) as a set: the values random.randrange(lo, hi, 2) can return
RangeStep2(lo, hi) == {v \in lo..(hi - 1) : (v - lo) % 2 = 0}

Range(s) == {s[i] : i \in DOMAIN s}

----------------------------------------------------------------------------
(* Reference notions the claims are stated with (not code).                *)

Cells(w, h) == {<<x, y>> : x \in 0..(w - 1), y \in 0..(h - 1)}

PassageCells(m, w, h) == {p \in Cells(w, h) : m[p[2]][p[1]] = PASSAGE}

Adjacent4(p, q) ==
    \/ (p[1] = q[1] /\ (p[2] - q[2] = 1 \/ q[2] - p[2] = 1))
    \/ (p[2] = q[2] /\ (p[1] - q[1] = 1 \/ q[1] - p[1] = 1))

\* the cells of S reachable from the cells of F by 4-adjacent steps inside S
RECURSIVE Closure(_, _)
Closure(F, S) ==
    LET N == {q \in S \ F : \E p \in F : Adjacent4(p, q)}
    IN IF N = {} THEN F ELSE Closure(F \cup N, S)

\* S is one 4-connected component (or empty)
Connected(S) == S = {} \/ (LET p == CHOOSE p \in S : TRUE IN Closure({p}, S) = S)

\* what is left of S after removing, again and again, every cell with at most
\* one 4-neighbour in S: non-empty exactly when S holds a cycle
RECURSIVE Core(_)
Core(S) ==
    LET L == {p \in S : Cardinality({q \in S : Adjacent4(p, q)}) <= 1}
    IN IF L = {} THEN S ELSE Core(S \ L)

HasCycle(S) == Core(S) # {}

\* the number of cells of a shortest 4-adjacent route inside S from a cell of
\* F to t, n being the number for the cells of F themselves; 0 when there is none
RECURSIVE RouteCells(_, _, _, _)
RouteCells(F, S, t, n) ==
    IF t \in F THEN n
    ELSE LET N == {q \in S \ F : \E p \in F : Adjacent4(p, q)}
         IN IF N = {} THEN 0 ELSE RouteCells(F \cup N, S, t, n + 1)

ShortestCells(S, s, t) == IF s \in S THEN RouteCells({s}, S, t, 1) ELSE 0

\* the rooms of a generator seeded at s: the cells two-step moves inside the
\* grid lead to from s
RoomsFrom(s, w, h) ==
    {p \in Cells(w, h) : (p[1] - s[1]) % 2 = 0 /\ (p[2] - s[2]) % 2 = 0}

\* a perfect maze over the rooms R, as far as it is carved: the passage cells
\* are one 4-connected component without a cycle, and the carved cells that
\* are no room (the connecting walls) are one fewer than the carved rooms
TreeOver(P, R) ==
    /\ Connected(P)
    /\ ~HasCycle(P)
    /\ Cardinality(P \ R) = Cardinality(P \cap R) - 1

----------------------------------------------------------------------------
(* The states before a routine is entered.                                 *)

\* the variables a routine does not use keep these values
Idle ==
    /\ stack = <<>>
    /\ queue = <<>>
    /\ visited = {}
    /\ open_set = <<>>
    /\ came_from = <<>>
    /\ g_score = <<>>
    /\ f_score = <<>>
    /\ closed_set = {}
    /\ walls = <<>>
    /\ frontier = <<>>
    /\ start = NoPos
    /\ end = NoPos
    /\ path = <<>>
    /\ result = NoResult
    /\ state = NoState
    /\ history = NoHistory

\* the orders random.shuffle can leave a list in
Shuffles(s) ==
    {p \in [DOMAIN s -> Range(s)] : \A i, j \in DOMAIN s : i # j => p[i] # p[j]}

GenShuffles == Shuffles(GenDirections)

----------------------------------------------------------------------------
(* DFSMazeGenerator.generate (algorithms/maze_algorithms.py).              *)
(* A frame of carve_path is [x, y, directions]: its arguments and the part *)
(* of the shuffled list the for loop has not taken yet.  random.shuffle    *)
(* fixes one of the 24 orders and nothing but the loop reads it, so the    *)
(* order is drawn as the loop goes: the next direction is any of the rest. *)
(* An iteration that rejects its direction changes nothing but the loop's  *)
(* position, and a rejected cell (out of bounds, or carved) stays rejected;*)
(* a step of the model is the loop running up to its next call or its end. *)

\* carve_path(x, y) up to its for loop: the frame with the whole list ahead
CarvePathEnter(x, y) == [x |-> x, y |-> y, directions |-> Range(GenDirections)]

\* carve_path recursing into every in-bounds cell, carved or not
DFSCanCarveNoWallTest(m, new_x, new_y, w, h) == InBounds(new_x, new_y, w, h)

\* 0 <= new_x < width and 0 <= new_y < height and maze[new_y][new_x] == 1
DFSCanCarve(m, new_x, new_y, w, h) ==
    InBounds(new_x, new_y, w, h) /\ m[new_y][new_x] = WALL

DFSGenInit ==
    /\ alg = "dfs_generate"
    /\ pc = "start"
    /\ width \in 3..MaxDFSGenW
    /\ height \in 3..MaxDFSGenH
    /\ maze = WallGrid(width, height)
    /\ Idle

\* start_x, start_y = random.randrange(0, width, 2), ...; carve_path(start_x, start_y)
\* (randrange raises ValueError on an empty range)
DFSGenBegin ==
    /\ alg = "dfs_generate" /\ pc = "start"
    /\ IF RangeStep2(0, width) = {} \/ RangeStep2(0, height) = {}
       THEN /\ pc' = "raised"
            /\ UNCHANGED <<start, maze, stack>>
       ELSE /\ \E start_x \in RangeStep2(0, width), start_y \in RangeStep2(0, height) :
                  /\ start' = <<start_x, start_y>>
                  /\ maze' = Carve(maze, start_x, start_y)
                  /\ stack' = <<CarvePathEnter(start_x, start_y)>>
            /\ pc' = "run"
    /\ UNCHANGED <<state, history, alg, width, height, queue, visited, open_set, came_from,
                   g_score, f_score, closed_set, walls, frontier, end, path, result>>

\* the for loop reaches a direction whose cell is an in-bounds wall: carve the
\* wall between the cells and call carve_path(new_x, new_y), which marks the cell
DFSCarveInto ==
    /\ alg = "dfs_generate" /\ pc = "run"
    /\ LET top == stack[Len(stack)] IN
       \E d \in top.directions :
          LET new_x == top.x + d[1]
              new_y == top.y + d[2]
          IN /\ DFSCanCarve(maze, new_x, new_y, width, height)
             /\ maze' = Carve(Carve(maze, top.x + FloorHalf(d[1]), top.y + FloorHalf(d[2])),
                              new_x, new_y)
             /\ stack' = Append([stack EXCEPT ![Len(stack)].directions = top.directions \ {d}],
                                CarvePathEnter(new_x, new_y))
    /\ UNCHANGED <<state, history, alg, pc, width, height, queue, visited, open_set, came_from,
                   g_score, f_score, closed_set, walls, frontier, start, end, path, result>>

\* the for loop of the innermost carve_path rejects every direction left and
\* ends: the call returns; when it was the outermost call, generate returns maze
DFSCarveReturn ==
    /\ alg = "dfs_generate" /\ pc = "run"
    /\ LET top == stack[Len(stack)] IN
       \A d \in top.directions :
          ~DFSCanCarve(maze, top.x + d[1], top.y + d[2], width, height)
    /\ stack' = SubSeq(stack, 1, Len(stack) - 1)
    /\ pc' = IF Len(stack) = 1 THEN "done" ELSE "run"
    /\ UNCHANGED <<state, history, alg, width, height, maze, queue, visited, open_set, came_from,
                   g_score, f_score, closed_set, walls, frontier, start, end, path, result>>

DFSGenNext == DFSGenBegin \/ DFSCarveInto \/ DFSCarveReturn

SpecDFSGen == DFSGenInit /\ [][DFSGenNext]_vars

\* C1: DFSMazeGenerator.generate returns a perfect maze for every width and
\* height >= 3, every random start cell and every shuffle outcome: every
\* room (both coordinates even) is PASSAGE, and, in the returned grid as in
\* every grid on the way, the PASSAGE cells are one 4-connected component
\* without a cycle whose carved connecting walls are one fewer than its rooms.
DFSGenPerfect ==
    (alg = "dfs_generate" /\ pc # "start") =>
        LET P == PassageCells(maze, width, height)
            R == RoomsFrom(<<0, 0>>, width, height)
        IN /\ TreeOver(P, R)
           /\ pc = "done" => (R \subseteq P /\ Cardinality(P \ R) = Cardinality(R) - 1)

\* a 5 x 4 grid (even height) returned with its six rooms and five walls carved
DFSGenPerfectWitness ==
    /\ alg = "dfs_generate" /\ pc = "done"
    /\ width = 5 /\ height = 4
    /\ Cardinality(PassageCells(maze, width, height)) = 11

----------------------------------------------------------------------------
(* BFSMazeGenerator.generate (algorithms/maze_algorithms.py).              *)
(* One step is one iteration of the while loop.  The loop's state is the   *)
(* record [maze, queue, visited].                                          *)

\* (new_x, new_y) not in visited, with no test at all: every in-bounds cell
BFSGenCanVisitNoVisitedTest(vis, new_x, new_y, w, h) == InBounds(new_x, new_y, w, h)

\* 0 <= new_x < width and 0 <= new_y < height and (new_x, new_y) not in visited
BFSGenCanVisit(vis, new_x, new_y, w, h) ==
    InBounds(new_x, new_y, w, h) /\ <<new_x, new_y>> \notin vis

\* the body of the for loop for the direction d, from the cell (x, y)
BFSGenVisit(st, x, y, d, w, h) ==
    LET new_x == x + d[1]
        new_y == y + d[2]
    IN IF BFSGenCanVisit(st.visited, new_x, new_y, w, h)
       THEN [maze |-> Carve(st.maze, x + FloorHalf(d[1]), y + FloorHalf(d[2])),
             queue |-> Append(st.queue, <<new_x, new_y>>),
             visited |-> st.visited \cup {<<new_x, new_y>>}]
       ELSE st

\* for dx, dy in directions: the iterations from the i-th on
RECURSIVE BFSGenFor(_, _, _, _, _, _, _)
BFSGenFor(st, x, y, directions, i, w, h) ==
    IF i > Len(directions) THEN st
    ELSE BFSGenFor(BFSGenVisit(st, x, y, directions[i], w, h), x, y, directions, i + 1, w, h)

BFSGenInit ==
    /\ alg = "bfs_generate"
    /\ pc = "start"
    /\ width \in 3..MaxBFSGenW
    /\ height \in 3..MaxBFSGenH
    /\ maze = WallGrid(width, height)
    /\ Idle

\* start = (0, 0) in place of (1, 1): the rooms at even coordinates
BFSGenBeginAtOrigin ==
    /\ alg = "bfs_generate" /\ pc = "start"
    /\ start' = <<0, 0>>
    /\ queue' = <<start'>>
    /\ visited' = {start'}
    /\ pc' = "run"
    /\ UNCHANGED <<state, history, alg, width, height, maze, stack, open_set, came_from, g_score,
                   f_score, closed_set, walls, frontier, end, path, result>>

\* start = (1, 1); queue = deque([start]); visited = {start}
BFSGenBegin ==
    /\ alg = "bfs_generate" /\ pc = "start"
    /\ start' = <<1, 1>>
    /\ queue' = <<start'>>
    /\ visited' = {start'}
    /\ pc' = "run"
    /\ UNCHANGED <<state, history, alg, width, height, maze, stack, open_set, came_from, g_score,
                   f_score, closed_set, walls, frontier, end, path, result>>

\* while queue: x, y = queue.popleft(); maze[y][x] = 0; shuffle; for ...
\* (maze[y][x] = 0 raises IndexError when the grid has no cell (x, y))
BFSGenIterate ==
    /\ alg = "bfs_generate" /\ pc = "run"
    /\ queue # <<>>
    /\ LET x == Head(queue)[1]
           y == Head(queue)[2]
       IN IF ~InBounds(x, y, width, height)
          THEN /\ queue' = Tail(queue)
               /\ pc' = "raised"
               /\ UNCHANGED <<maze, visited>>
          ELSE /\ \E directions \in GenShuffles :
                    LET st == BFSGenFor([maze |-> Carve(maze, x, y), queue |-> Tail(queue),
                                         visited |-> visited], x, y, directions, 1,
                                        width, height)
                    IN /\ maze' = st.maze
                       /\ queue' = st.queue
                       /\ visited' = st.visited
               /\ UNCHANGED pc
    /\ UNCHANGED <<state, history, alg, width, height, stack, open_set, came_from, g_score,
                   f_score, closed_set, walls, frontier, start, end, path, result>>

\* the queue is empty: return maze
BFSGenReturn ==
    /\ alg = "bfs_generate" /\ pc = "run"
    /\ queue = <<>>
    /\ pc' = "done"
    /\ UNCHANGED <<state, history, alg, width, height, maze, stack, queue, visited, open_set, came_from,
                   g_score, f_score, closed_set, walls, frontier, start, end, path, result>>

BFSGenNext == BFSGenBegin \/ BFSGenIterate \/ BFSGenReturn

SpecBFSGen == BFSGenInit /\ [][BFSGenNext]_vars

\* C2: BFSMazeGenerator.generate returns a perfect maze over its rooms (the
\* cells two-step moves inside the grid lead to from its start cell (1, 1)),
\* for every width and height >= 3 and every shuffle outcome: every room is
\* PASSAGE, the PASSAGE cells are one 4-connected component without a cycle,
\* and exactly rooms - 1 connecting walls are carved; on the way no wall is
\* carved twice into the same room (the carved walls are one fewer than the
\* cells enqueued so far) and no cycle is ever closed.
BFSGenPerfect ==
    (alg = "bfs_generate" /\ pc # "start") =>
        LET P == PassageCells(maze, width, height)
            R == RoomsFrom(<<1, 1>>, width, height)
        IN /\ Connected(P)
           /\ ~HasCycle(P)
           /\ Cardinality(P \ R) = Cardinality(visited) - 1
           /\ pc = "done" => (R \subseteq P /\ TreeOver(P, R)
                              /\ Cardinality(P \ R) = Cardinality(R) - 1)

\* a 6 x 5 grid returned with its six rooms and five walls carved
BFSGenPerfectWitness ==
    /\ alg = "bfs_generate" /\ pc = "done"
    /\ width = 6 /\ height = 5
    /\ Cardinality(PassageCells(maze, width, height)) = 11

----------------------------------------------------------------------------
(* AStarMazeGenerator.generate (algorithms/maze_algorithms.py).            *)
(* open_set holds the heap's entries <<f, pos>> in the order they were     *)
(* pushed; heapq.heappop returns the least entry in Python's tuple order,  *)
(* whatever the layout of the heap's array.  The dicts are functions on    *)
(* the set of their keys.  One step is one iteration of the while loop.    *)

Abs(n) == IF n >= 0 THEN n ELSE -n

\* abs(a[0] - b[0]) + abs(a[1] - b[1])
heuristic(a, b) == Abs(a[1] - b[1]) + Abs(a[2] - b[2])

\* Python's (x1, y1) < (x2, y2)
PosLess(p, q) == p[1] < q[1] \/ (p[1] = q[1] /\ p[2] < q[2])

\* Python's (f1, pos1) < (f2, pos2)
EntryLess(a, b) == a[1] < b[1] \/ (a[1] = b[1] /\ PosLess(a[2], b[2]))

\* the index in open_set of the entry heapq.heappop returns: the least one
\* (of equal entries, which are interchangeable, the first)
HeapMinIndex(heap) ==
    CHOOSE i \in DOMAIN heap :
        /\ \A j \in DOMAIN heap : ~EntryLess(heap[j], heap[i])
        /\ \A j \in 1..(i - 1) : heap[j] # heap[i]

\* the list without its i-th element
RemoveAt(s, i) == SubSeq(s, 1, i - 1) \o SubSeq(s, i + 1, Len(s))

\* a dict with d[k] = v set
DictSet(d, k, v) == [x \in DOMAIN d \cup {k} |-> IF x = k THEN v ELSE d[x]]

\* get_neighbors(x, y): the in-bounds two-step neighbours, in the order of the list
AStarGenNeighbors(x, y, w, h) ==
    SelectSeq([i \in 1..Len(GenDirections) |->
                  <<x + GenDirections[i][1], y + GenDirections[i][2]>>],
              LAMBDA p : InBounds(p[1], p[2], w, h))

\* the body of the for loop for next_pos, from current
AStarGenRelax(st, current, next_pos, goal) ==
    LET tentative_g == st.g_score[current] + 1
    IN IF next_pos \notin DOMAIN st.g_score \/ tentative_g < st.g_score[next_pos]
       THEN LET f == tentative_g + heuristic(next_pos, goal)
                mid_x == FloorHalf(current[1] + next_pos[1])
                mid_y == FloorHalf(current[2] + next_pos[2])
            IN [maze |-> Carve(st.maze, mid_x, mid_y),
                open_set |-> Append(st.open_set, <<f, next_pos>>),
                came_from |-> DictSet(st.came_from, next_pos, current),
                g_score |-> DictSet(st.g_score, next_pos, tentative_g),
                f_score |-> DictSet(st.f_score, next_pos, f)]
       ELSE st

\* for next_pos in get_neighbors(*current): the iterations from the i-th on
\* (the state after the i-th iteration is bound once, as a value)
RECURSIVE AStarGenFor(_, _, _, _, _)
AStarGenFor(st, current, neighbors, i, goal) ==
    IF i > Len(neighbors) THEN st
    ELSE CHOOSE r \in {AStarGenFor(nxt, current, neighbors, i + 1, goal) :
                          nxt \in {AStarGenRelax(st, current, neighbors[i], goal)}} : TRUE

AStarGenInit ==
    /\ alg = "astar_generate"
    /\ pc = "start"
    /\ width \in 3..MaxAStarGenW
    /\ height \in 3..MaxAStarGenH
    /\ maze = WallGrid(width, height)
    /\ Idle

\* a start cell drawn at random among the odd cells, as the Prim generator of
\* this file draws it, in place of start = (1, 1)
AStarGenBeginRandomStart ==
    /\ alg = "astar_generate" /\ pc = "start"
    /\ \E start_x \in RangeStep2(1, width - 1), start_y \in RangeStep2(1, height - 1) :
          start' = <<start_x, start_y>>
    /\ end' = <<width - 2, height - 2>>
    /\ open_set' = << <<0, start'>> >>
    /\ came_from' = <<>>
    /\ g_score' = [p \in {start'} |-> 0]
    /\ f_score' = [p \in {start'} |-> heuristic(start', end')]
    /\ pc' = "run"
    /\ UNCHANGED <<state, history, alg, width, height, maze, stack, queue, visited,
                   closed_set, walls, frontier, path, result>>

\* start = (1, 1); end = (width - 2, height - 2); open_set = [(0, start)]; ...
AStarGenBegin ==
    /\ alg = "astar_generate" /\ pc = "start"
    /\ start' = <<1, 1>>
    /\ end' = <<width - 2, height - 2>>
    /\ open_set' = << <<0, start'>> >>
    /\ came_from' = <<>>
    /\ g_score' = [p \in {start'} |-> 0]
    /\ f_score' = [p \in {start'} |-> heuristic(start', end')]
    /\ pc' = "run"
    /\ UNCHANGED <<state, history, alg, width, height, maze, stack, queue, visited, closed_set,
                   walls, frontier, path, result>>

\* while open_set: current = heappop(open_set)[1]; maze[current] = 0;
\* current is not end: relax its neighbours
\* (maze[current] = 0 raises IndexError when the grid has no cell current)
AStarGenExpand ==
    /\ alg = "astar_generate" /\ pc = "run"
    /\ open_set # <<>>
    /\ LET i == HeapMinIndex(open_set)
           current == open_set[i][2]
       IN /\ current # end \/ ~InBounds(current[1], current[2], width, height)
          /\ history' = [history EXCEPT !.popped = Append(@, current)]
          /\ IF ~InBounds(current[1], current[2], width, height)
             THEN /\ open_set' = RemoveAt(open_set, i)
                  /\ pc' = "raised"
                  /\ UNCHANGED <<maze, came_from, g_score, f_score>>
             ELSE /\ \E st \in {AStarGenFor([maze |-> Carve(maze, current[1], current[2]),
                                            open_set |-> RemoveAt(open_set, i),
                                            came_from |-> came_from,
                                            g_score |-> g_score,
                                            f_score |-> f_score],
                                           current,
                                           AStarGenNeighbors(current[1], current[2],
                                                             width, height),
                                           1, end)} :
                        /\ maze' = st.maze
                        /\ open_set' = st.open_set
                        /\ came_from' = st.came_from
                        /\ g_score' = st.g_score
                        /\ f_score' = st.f_score
                  /\ UNCHANGED pc
    /\ UNCHANGED <<state, alg, width, height, stack, queue, visited, closed_set,
                   walls, frontier, start, end, path, result>>

\* current = heappop(open_set)[1]; maze[current] = 0; current == end: break,
\* return maze
AStarGenReachEnd ==
    /\ alg = "astar_generate" /\ pc = "run"
    /\ open_set # <<>>
    /\ LET i == HeapMinIndex(open_set)
           current == open_set[i][2]
       IN /\ current = end
          /\ InBounds(current[1], current[2], width, height)
          /\ history' = [history EXCEPT !.popped = Append(@, current)]
          /\ maze' = Carve(maze, current[1], current[2])
          /\ open_set' = RemoveAt(open_set, i)
    /\ pc' = "done"
    /\ UNCHANGED <<state, alg, width, height, stack, queue, visited, came_from, g_score,
                   f_score, closed_set, walls, frontier, start, end, path, result>>

\* open_set is empty: the while loop ends, return maze
AStarGenReturn ==
    /\ alg = "astar_generate" /\ pc = "run"
    /\ open_set = <<>>
    /\ pc' = "done"
    /\ UNCHANGED <<state, history, alg, width, height, maze, stack, queue, visited, open_set, came_from,
                   g_score, f_score, closed_set, walls, frontier, start, end, path, result>>

AStarGenNext == AStarGenBegin \/ AStarGenExpand \/ AStarGenReachEnd \/ AStarGenReturn

SpecAStarGen == AStarGenInit /\ [][AStarGenNext]_vars

\* C3: AStarMazeGenerator.generate leaves no isolated room, for every width
\* and height >= 3: in the returned grid every room (every cell two-step
\* moves inside the grid lead to from (1, 1)) is PASSAGE and the PASSAGE
\* cells are one 4-connected component.
AStarGenNoIsolatedRoom ==
    (alg = "astar_generate" /\ pc = "done") =>
        LET P == PassageCells(maze, width, height)
        IN RoomsFrom(<<1, 1>>, width, height) \subseteq P /\ Connected(P)

\* C4: the grid AStarMazeGenerator.generate returns holds no cycle of PASSAGE
\* cells, for every width and height >= 3, odd or even.
AStarGenNoCycle ==
    (alg = "astar_generate" /\ pc = "done") =>
        ~HasCycle(PassageCells(maze, width, height))

----------------------------------------------------------------------------
(* PrimMazeGenerator.generate (algorithms/maze_algorithms.py).             *)
(* walls is the list of <<wall_x, wall_y, from_x, from_y>>.  One step is   *)
(* one iteration of the while loop.                                        *)

\* for dx, dy in [...]: walls.append((new_x, new_y, x, y)) for the in-bounds
\* two-step neighbours of (x, y); after a carve only for those still WALL
RECURSIVE WallPrimAddWalls(_, _, _, _, _, _, _, _)
WallPrimAddWalls(ws, m, x, y, i, onlyWall, w, h) ==
    IF i > Len(GenDirections) THEN ws
    ELSE LET new_x == x + GenDirections[i][1]
             new_y == y + GenDirections[i][2]
             add == InBounds(new_x, new_y, w, h)
                    /\ (onlyWall => m[new_y][new_x] = WALL)
         IN WallPrimAddWalls(IF add THEN Append(ws, <<new_x, new_y, x, y>>) ELSE ws,
                             m, x, y, i + 1, onlyWall, w, h)

WallPrimInit ==
    /\ alg = "wallprim_generate"
    /\ pc = "start"
    /\ width \in 3..MaxWallPrimW
    /\ height \in 3..MaxWallPrimH
    /\ maze = WallGrid(width, height)
    /\ Idle

\* start_x = random.randrange(1, width - 1, 2); ...; maze[start_y][start_x] = 0;
\* the walls around the start cell
\* (randrange raises ValueError on an empty range)
WallPrimBegin ==
    /\ alg = "wallprim_generate" /\ pc = "start"
    /\ IF RangeStep2(1, width - 1) = {} \/ RangeStep2(1, height - 1) = {}
       THEN /\ pc' = "raised"
            /\ UNCHANGED <<start, maze, walls>>
       ELSE /\ \E start_x \in RangeStep2(1, width - 1),
                  start_y \in RangeStep2(1, height - 1) :
                  /\ start' = <<start_x, start_y>>
                  /\ maze' = Carve(maze, start_x, start_y)
                  /\ walls' = WallPrimAddWalls(<<>>, maze', start_x, start_y, 1, FALSE,
                                               width, height)
            /\ pc' = "run"
    /\ UNCHANGED <<state, history, alg, width, height, stack, queue, visited, open_set, came_from,
                   g_score, f_score, closed_set, frontier, end, path, result>>

\* walls.pop(random.randrange(len(walls))); the cell beyond it is an in-bounds
\* WALL: carve both and add the neighbouring walls
WallPrimCarve ==
    /\ alg = "wallprim_generate" /\ pc = "run"
    /\ \E k \in DOMAIN walls :
          LET wall_x == walls[k][1]
              wall_y == walls[k][2]
              to_x == wall_x + (wall_x - walls[k][3])
              to_y == wall_y + (wall_y - walls[k][4])
          IN /\ InBounds(to_x, to_y, width, height)
             /\ maze[to_y][to_x] = WALL
             /\ maze' = Carve(Carve(maze, wall_x, wall_y), to_x, to_y)
             /\ walls' = WallPrimAddWalls(RemoveAt(walls, k), maze', to_x, to_y, 1, TRUE,
                                          width, height)
    /\ UNCHANGED <<state, history, alg, pc, width, height, stack, queue, visited, open_set, came_from,
                   g_score, f_score, closed_set, frontier, start, end, path, result>>

\* walls.pop(random.randrange(len(walls))); the cell beyond it is out of
\* bounds or PASSAGE: the wall is dropped
WallPrimDrop ==
    /\ alg = "wallprim_generate" /\ pc = "run"
    /\ \E k \in DOMAIN walls :
          LET to_x == walls[k][1] + (walls[k][1] - walls[k][3])
              to_y == walls[k][2] + (walls[k][2] - walls[k][4])
          IN /\ ~(InBounds(to_x, to_y, width, height) /\ maze[to_y][to_x] = WALL)
             /\ walls' = RemoveAt(walls, k)
    /\ UNCHANGED <<state, history, alg, pc, width, height, maze, stack, queue, visited, open_set, came_from,
                   g_score, f_score, closed_set, frontier, start, end, path, result>>

\* walls is empty: return maze
WallPrimReturn ==
    /\ alg = "wallprim_generate" /\ pc = "run"
    /\ walls = <<>>
    /\ pc' = "done"
    /\ UNCHANGED <<state, history, alg, width, height, maze, stack, queue, visited, open_set, came_from,
                   g_score, f_score, closed_set, walls, frontier, start, end, path, result>>

WallPrimNext == WallPrimBegin \/ WallPrimCarve \/ WallPrimDrop \/ WallPrimReturn

SpecWallPrim == WallPrimInit /\ [][WallPrimNext]_vars

\* C5: PrimMazeGenerator.generate of algorithms/maze_algorithms.py returns a
\* perfect maze, for every width and height >= 3 and every random choice:
\* after each loop iteration and in the returned grid the PASSAGE cells are
\* one 4-connected component containing the start cell, and in the returned
\* grid every room is PASSAGE.
WallPrimPerfect ==
    (alg = "wallprim_generate" /\ pc # "start") =>
        LET P == PassageCells(maze, width, height)
        IN /\ start \in P
           /\ Connected(P)
           /\ pc = "done" => RoomsFrom(start, width, height) \subseteq P
----------------------------------------------------------------------------
(* PrimMazeGenerator.generate (generators/prim_generator.py).              *)
(* frontier is the list of frontier cells.  One step is one iteration of   *)
(* the while loop.                                                         *)

\* _add_frontier_cells adding every in-bounds cell not yet in the list,
\* carved or not
PrimIsNewFrontierNoWallTest(m, fr, new_x, new_y, w, h) ==
    /\ InBounds(new_x, new_y, w, h)
    /\ <<new_x, new_y>> \notin Range(fr)

\* 0 <= new_x < self.width and 0 <= new_y < self.height and
\* self.maze[new_y][new_x] == 1 and (new_x, new_y) not in frontier
PrimIsNewFrontier(m, fr, new_x, new_y, w, h) ==
    /\ InBounds(new_x, new_y, w, h)
    /\ m[new_y][new_x] = WALL
    /\ <<new_x, new_y>> \notin Range(fr)

\* _add_frontier_cells(x, y, frontier): the for loop from its i-th iteration on
RECURSIVE _add_frontier_cells(_, _, _, _, _, _, _)
_add_frontier_cells(m, x, y, fr, i, w, h) ==
    IF i > Len(GenDirections) THEN fr
    ELSE LET new_x == x + GenDirections[i][1]
             new_y == y + GenDirections[i][2]
         IN _add_frontier_cells(m, x, y,
                IF PrimIsNewFrontier(m, fr, new_x, new_y, w, h)
                THEN Append(fr, <<new_x, new_y>>) ELSE fr,
                i + 1, w, h)

\* _get_visited_neighbors(x, y): the in-bounds two-step neighbours that are PASSAGE
_get_visited_neighbors(m, x, y, w, h) ==
    SelectSeq([i \in 1..Len(GenDirections) |->
                  <<x + GenDirections[i][1], y + GenDirections[i][2]>>],
              LAMBDA p : InBounds(p[1], p[2], w, h) /\ m[p[2]][p[1]] = PASSAGE)

\* frontier.remove(current): the list without the first occurrence of current
ListRemove(s, v) == RemoveAt(s, CHOOSE i \in DOMAIN s : s[i] = v /\ \A j \in 1..(i - 1) : s[j] # v)

PrimInit ==
    /\ alg = "prim_generate"
    /\ pc = "start"
    /\ width \in 3..MaxPrimW
    /\ height \in 3..MaxPrimH
    /\ maze = WallGrid(width, height)
    /\ Idle

\* start_x = random.randint(0, self.width - 1); ...; self.maze[start_y][start_x] = 0;
\* self._add_frontier_cells(start_x, start_y, frontier)
\* (randint raises ValueError on an empty range)
PrimBegin ==
    /\ alg = "prim_generate" /\ pc = "start"
    /\ IF width < 1 \/ height < 1
       THEN /\ pc' = "raised"
            /\ UNCHANGED <<start, maze, frontier>>
       ELSE /\ \E start_x \in 0..(width - 1), start_y \in 0..(height - 1) :
                  /\ start' = <<start_x, start_y>>
                  /\ maze' = Carve(maze, start_x, start_y)
                  /\ frontier' = _add_frontier_cells(maze', start_x, start_y, <<>>, 1,
                                                     width, height)
            /\ pc' = "run"
    /\ UNCHANGED <<state, history, alg, width, height, stack, queue, visited, open_set, came_from,
                   g_score, f_score, closed_set, walls, end, path, result>>

\* current = random.choice(frontier); frontier.remove(current); connect it to
\* a random visited neighbour, if it has one, and add its frontier cells
PrimIterate ==
    /\ alg = "prim_generate" /\ pc = "run"
    /\ \E k \in DOMAIN frontier :
          LET current == frontier[k]
              x == current[1]
              y == current[2]
              rest == ListRemove(frontier, current)
              neighbors == _get_visited_neighbors(maze, x, y, width, height)
          IN IF neighbors # <<>>
             THEN \E n \in DOMAIN neighbors :
                     LET nx == neighbors[n][1]
                         ny == neighbors[n][2]
                     IN /\ maze' = Carve(Carve(maze, x, y),
                                         FloorHalf(x + nx), FloorHalf(y + ny))
                        /\ frontier' = _add_frontier_cells(maze', x, y, rest, 1, width, height)
             ELSE /\ frontier' = rest
                  /\ maze' = maze
    /\ UNCHANGED <<state, history, alg, pc, width, height, stack, queue, visited, open_set, came_from,
                   g_score, f_score, closed_set, walls, start, end, path, result>>

\* frontier is empty: return self.maze
PrimReturn ==
    /\ alg = "prim_generate" /\ pc = "run"
    /\ frontier = <<>>
    /\ pc' = "done"
    /\ UNCHANGED <<state, history, alg, width, height, maze, stack, queue, visited, open_set, came_from,
                   g_score, f_score, closed_set, walls, frontier, start, end, path, result>>

PrimNext == PrimBegin \/ PrimIterate \/ PrimReturn

SpecPrim == PrimInit /\ [][PrimNext]_vars

\* C6: PrimMazeGenerator.generate of generators/prim_generator.py returns a
\* perfect maze over the rooms sharing the start cell's coordinate parity,
\* for every width and height >= 3, every start cell and every random
\* choice: every frontier cell (so every popped one) has a visited two-step
\* neighbour, each carved room is joined by exactly one wall (at every step
\* the PASSAGE cells are 4-connected, without a cycle, with one wall fewer
\* than rooms), and at return all these rooms are PASSAGE and the carved
\* walls are rooms - 1.
PrimPerfect ==
    (alg = "prim_generate" /\ pc # "start") =>
        LET P == PassageCells(maze, width, height)
            R == RoomsFrom(start, width, height)
        IN /\ \A i \in DOMAIN frontier :
                _get_visited_neighbors(maze, frontier[i][1], frontier[i][2],
                                       width, height) # <<>>
           /\ TreeOver(P, R)
           /\ pc = "done" => (R \subseteq P /\ Cardinality(P \ R) = Cardinality(R) - 1)

\* a 5 x 4 grid returned from the start cell (2, 1): six rooms, five walls
PrimPerfectWitness ==
    /\ alg = "prim_generate" /\ pc = "done"
    /\ width = 5 /\ height = 4
    /\ start = <<2, 1>>
    /\ Cardinality(PassageCells(maze, width, height)) = 11

----------------------------------------------------------------------------
(* The solvers.  solve(maze, start, end) is handed any grid of 0/1 cells   *)
(* and any two in-bounds positions; width and height are len(maze[0]) and  *)
(* len(maze).                                                              *)

Solvers == {"dfs_solve", "bfs_solve", "astar_solve", "prim_solve"}

Grids(w, h) == [0..(h - 1) -> [0..(w - 1) -> {WALL, PASSAGE}]]

SolveInit ==
    /\ alg \in Solvers
    /\ pc = "start"
    /\ width \in 1..MaxSolveW
    /\ height \in 1..MaxSolveH
    /\ width * height <= MaxSolveCells
    /\ maze \in Grids(width, height)
    /\ start \in Cells(width, height)
    /\ end \in Cells(width, height)
    /\ stack = <<>>
    /\ queue = <<>>
    /\ visited = {}
    /\ open_set = <<>>
    /\ came_from = <<>>
    /\ g_score = <<>>
    /\ f_score = <<>>
    /\ closed_set = {}
    /\ walls = <<>>
    /\ frontier = <<>>
    /\ path = <<>>
    /\ result = NoResult
    /\ state = NoState
    /\ history = NoHistory

\* list(reversed(path))
Reversed(s) == [i \in 1..Len(s) |-> s[Len(s) + 1 - i]]

\* the least index from i on whose element of s is not in vis; 0 when none
NextNotIn(s, i, vis) ==
    LET C == {j \in i..Len(s) : s[j] \notin vis}
    IN IF C = {} THEN 0 ELSE CHOOSE j \in C : \A k \in C : j <= k

----------------------------------------------------------------------------
(* DFSMazeGenerator.solve.  A frame of dfs is [x, y, i]: its arguments and *)
(* the index in get_neighbors(x, y) the for loop takes next.  A step is    *)
(* the innermost loop running up to its next call or its end, or a return. *)

\* a neighbour test without the maze[new_y][new_x] == 0 part
DFSSolveIsOpenNoWallTest(m, new_x, new_y, w, h) == InBounds(new_x, new_y, w, h)

\* 0 <= new_x < len(maze[0]) and 0 <= new_y < len(maze) and maze[new_y][new_x] == 0
DFSSolveIsOpen(m, new_x, new_y, w, h) ==
    InBounds(new_x, new_y, w, h) /\ m[new_y][new_x] = PASSAGE

\* get_neighbors(x, y)
DFSSolveNeighbors(m, x, y, w, h) ==
    SelectSeq([i \in 1..Len(SolveDirections) |->
                  <<x + SolveDirections[i][1], y + SolveDirections[i][2]>>],
              LAMBDA p : DFSSolveIsOpen(m, p[1], p[2], w, h))

\* dfs(start[0], start[1]) is called
DFSSolveBegin ==
    /\ alg = "dfs_solve" /\ pc = "start"
    /\ IF start = end
       THEN /\ path' = <<start>>
            /\ result' = Reversed(path')
            /\ pc' = "done"
            /\ UNCHANGED <<visited, stack>>
       ELSE /\ visited' = {start}
            /\ stack' = <<[x |-> start[1], y |-> start[2], i |-> 1]>>
            /\ pc' = "run"
            /\ UNCHANGED <<path, result>>
    /\ UNCHANGED <<state, history, alg, width, height, maze, queue, open_set, came_from, g_score,
                   f_score, closed_set, walls, frontier, start, end>>

\* a dfs that marks the cell it enters in the grid itself (maze[y][x] = 1)
\* next to visited.add((x, y))
DFSSolveRecurseMarking ==
    /\ alg = "dfs_solve" /\ pc = "run"
    /\ LET top == stack[Len(stack)]
           nbrs == DFSSolveNeighbors(maze, top.x, top.y, width, height)
           j == NextNotIn(nbrs, top.i, visited)
       IN /\ j # 0
          /\ IF nbrs[j] = end
             THEN /\ path' = Append(path, nbrs[j])
                  /\ pc' = "unwind"
                  /\ stack' = [stack EXCEPT ![Len(stack)].i = j + 1]
                  /\ UNCHANGED <<visited, maze>>
             ELSE /\ visited' = visited \cup {nbrs[j]}
                  /\ maze' = [maze EXCEPT ![nbrs[j][2]][nbrs[j][1]] = WALL]
                  /\ stack' = Append([stack EXCEPT ![Len(stack)].i = j + 1],
                                     [x |-> nbrs[j][1], y |-> nbrs[j][2], i |-> 1])
                  /\ UNCHANGED <<path, pc>>
    /\ UNCHANGED <<state, history, alg, width, height, queue, open_set, came_from, g_score,
                   f_score, closed_set, walls, frontier, start, end, result>>

\* the for loop reaches a neighbour not in visited and calls dfs on it; the
\* call appends end and returns True, or adds the cell to visited and loops
DFSSolveRecurse ==
    /\ alg = "dfs_solve" /\ pc = "run"
    /\ LET top == stack[Len(stack)]
           nbrs == DFSSolveNeighbors(maze, top.x, top.y, width, height)
           j == NextNotIn(nbrs, top.i, visited)
       IN /\ j # 0
          /\ IF nbrs[j] = end
             THEN /\ path' = Append(path, nbrs[j])
                  /\ pc' = "unwind"
                  /\ stack' = [stack EXCEPT ![Len(stack)].i = j + 1]
                  /\ UNCHANGED visited
             ELSE /\ visited' = visited \cup {nbrs[j]}
                  /\ stack' = Append([stack EXCEPT ![Len(stack)].i = j + 1],
                                     [x |-> nbrs[j][1], y |-> nbrs[j][2], i |-> 1])
                  /\ UNCHANGED <<path, pc>>
    /\ UNCHANGED <<state, history, alg, width, height, maze, queue, open_set, came_from, g_score,
                   f_score, closed_set, walls, frontier, start, end, result>>

\* the for loop ends: dfs returns False; when it was the outermost call,
\* solve returns []
DFSSolveBacktrack ==
    /\ alg = "dfs_solve" /\ pc = "run"
    /\ LET top == stack[Len(stack)]
       IN NextNotIn(DFSSolveNeighbors(maze, top.x, top.y, width, height), top.i, visited) = 0
    /\ stack' = SubSeq(stack, 1, Len(stack) - 1)
    /\ IF Len(stack) = 1
       THEN result' = <<>> /\ pc' = "done"
       ELSE UNCHANGED <<result, pc>>
    /\ UNCHANGED <<state, history, alg, width, height, maze, queue, visited, open_set, came_from, g_score,
                   f_score, closed_set, walls, frontier, start, end, path>>

\* the call below returned True: append (x, y) and return True; when it was
\* the outermost call, solve returns list(reversed(path))
DFSSolveUnwind ==
    /\ alg = "dfs_solve" /\ pc = "unwind"
    /\ LET top == stack[Len(stack)]
       IN path' = Append(path, <<top.x, top.y>>)
    /\ stack' = SubSeq(stack, 1, Len(stack) - 1)
    /\ IF Len(stack) = 1
       THEN result' = Reversed(path') /\ pc' = "done"
       ELSE UNCHANGED <<result, pc>>
    /\ UNCHANGED <<state, history, alg, width, height, maze, queue, visited, open_set, came_from, g_score,
                   f_score, closed_set, walls, frontier, start, end>>

----------------------------------------------------------------------------
(* BFSMazeGenerator.solve.  queue holds the pairs <<position, path>>.  One *)
(* step is one iteration of the while loop.                                *)

\* deque([(start, [])]): the path-so-far starting empty
BFSSolveFirstEntryNoStart(s) == <<s, <<>>>>

\* the entry of deque([(start, [start])])
BFSSolveFirstEntry(s) == <<s, <<s>>>>

\* a neighbour test without the maze[new_y][new_x] == 0 part
BFSSolveCanVisitNoWallTest(m, vis, new_x, new_y, w, h) ==
    InBounds(new_x, new_y, w, h) /\ <<new_x, new_y>> \notin vis

\* 0 <= new_x < len(maze[0]) and 0 <= new_y < len(maze) and
\* maze[new_y][new_x] == 0 and (new_x, new_y) not in visited
BFSSolveCanVisit(m, vis, new_x, new_y, w, h) ==
    /\ InBounds(new_x, new_y, w, h)
    /\ m[new_y][new_x] = PASSAGE
    /\ <<new_x, new_y>> \notin vis

\* the for loop without its visited.add((new_x, new_y)): a position enters
\* the queue and visited is left as it was
RECURSIVE BFSSolveForNoVisitedAdd(_, _, _, _, _, _, _, _)
BFSSolveForNoVisitedAdd(st, m, x, y, p, i, w, h) ==
    IF i > Len(SolveDirections) THEN st
    ELSE LET new_x == x + SolveDirections[i][1]
             new_y == y + SolveDirections[i][2]
         IN BFSSolveForNoVisitedAdd(
                IF BFSSolveCanVisit(m, st.visited, new_x, new_y, w, h)
                THEN [queue |-> Append(st.queue, <<<<new_x, new_y>>, Append(p, <<new_x, new_y>>)>>),
                      visited |-> st.visited]
                ELSE st,
                m, x, y, p, i + 1, w, h)

\* for dx, dy in [...]: the iterations from the i-th on, from (x, y) with path p
RECURSIVE BFSSolveFor(_, _, _, _, _, _, _, _)
BFSSolveFor(st, m, x, y, p, i, w, h) ==
    IF i > Len(SolveDirections) THEN st
    ELSE LET new_x == x + SolveDirections[i][1]
             new_y == y + SolveDirections[i][2]
         IN BFSSolveFor(
                IF BFSSolveCanVisit(m, st.visited, new_x, new_y, w, h)
                THEN [queue |-> Append(st.queue, <<<<new_x, new_y>>, Append(p, <<new_x, new_y>>)>>),
                      visited |-> st.visited \cup {<<new_x, new_y>>}]
                ELSE st,
                m, x, y, p, i + 1, w, h)

\* queue = deque([(start, [start])]); visited = {start}
BFSSolveBegin ==
    /\ alg = "bfs_solve" /\ pc = "start"
    /\ queue' = <<BFSSolveFirstEntry(start)>>
    /\ visited' = {start}
    /\ pc' = "run"
    /\ UNCHANGED <<state, history, alg, width, height, maze, stack, open_set, came_from, g_score,
                   f_score, closed_set, walls, frontier, start, end, path, result>>

\* (x, y), path = queue.popleft(); (x, y) == end: return path
BFSSolveFound ==
    /\ alg = "bfs_solve" /\ pc = "run"
    /\ queue # <<>>
    /\ Head(queue)[1] = end
    /\ queue' = Tail(queue)
    /\ result' = Head(queue)[2]
    /\ pc' = "done"
    /\ UNCHANGED <<state, history, alg, width, height, maze, stack, visited, open_set, came_from, g_score,
                   f_score, closed_set, walls, frontier, start, end, path>>

\* (x, y), path = queue.popleft(); (x, y) is not end: enqueue its neighbours
\* (len(maze[0]) raises TypeError when maze is None; 0 <= new_x is tested first)
BFSSolveExpand ==
    /\ alg = "bfs_solve" /\ pc = "run"
    /\ queue # <<>>
    /\ Head(queue)[1] # end
    /\ IF maze = None
       THEN /\ queue' = Tail(queue)
            /\ pc' = IF \E i \in DOMAIN SolveDirections :
                            0 <= Head(queue)[1][1] + SolveDirections[i][1]
                     THEN "raised" ELSE pc
            /\ UNCHANGED visited
       ELSE /\ LET st == BFSSolveFor([queue |-> Tail(queue), visited |-> visited], maze,
                                     Head(queue)[1][1], Head(queue)[1][2], Head(queue)[2],
                                     1, width, height)
               IN /\ queue' = st.queue
                  /\ visited' = st.visited
            /\ UNCHANGED pc
    /\ UNCHANGED <<state, history, alg, width, height, maze, stack, open_set, came_from, g_score,
                   f_score, closed_set, walls, frontier, start, end, path, result>>

\* the queue is empty: return []
BFSSolveFail ==
    /\ alg = "bfs_solve" /\ pc = "run"
    /\ queue = <<>>
    /\ result' = <<>>
    /\ pc' = "done"
    /\ UNCHANGED <<state, history, alg, width, height, maze, stack, queue, visited, open_set, came_from,
                   g_score, f_score, closed_set, walls, frontier, start, end, path>>

----------------------------------------------------------------------------
(* AStarMazeGenerator.solve.  open_set holds the heap's entries            *)
(* <<f, position, path>> in the order they were pushed; heappop returns    *)
(* the least in Python's tuple order.  One step is one iteration of the    *)
(* while loop.                                                             *)

\* Python's p < q for two lists of positions
PathLess(p, q) ==
    \E k \in 1..(Len(p) + 1) :
        /\ \A j \in 1..(k - 1) : j <= Len(q) /\ p[j] = q[j]
        /\ k <= Len(q)
        /\ (k <= Len(p) => PosLess(p[k], q[k]))

\* Python's (f1, pos1, path1) < (f2, pos2, path2)
SolveEntryLess(a, b) ==
    \/ a[1] < b[1]
    \/ (a[1] = b[1] /\ PosLess(a[2], b[2]))
    \/ (a[1] = b[1] /\ a[2] = b[2] /\ PathLess(a[3], b[3]))

\* open_set.pop() in place of heappop: the entry pushed last
SolveHeapLastIndex(heap) == Len(heap)

\* the index in open_set of the entry heapq.heappop returns
SolveHeapMinIndex(heap) ==
    CHOOSE i \in DOMAIN heap :
        /\ \A j \in DOMAIN heap : ~SolveEntryLess(heap[j], heap[i])
        /\ \A j \in 1..(i - 1) : heap[j] # heap[i]

\* g = len(path); h = heuristic(next_pos, end); f = g + h
AStarSolveF(p, next_pos, goal) == Len(p) + heuristic(next_pos, goal)

\* 0 <= next_pos[0] < len(maze[0]) and 0 <= next_pos[1] < len(maze) and
\* maze[next_pos[1]][next_pos[0]] == 0 and next_pos not in closed_set
AStarSolveCanPush(m, closed, next_pos, w, h) ==
    /\ InBounds(next_pos[1], next_pos[2], w, h)
    /\ m[next_pos[2]][next_pos[1]] = PASSAGE
    /\ next_pos \notin closed

\* for dx, dy in [...]: the iterations from the i-th on, from current with path p
RECURSIVE AStarSolveFor(_, _, _, _, _, _, _, _, _)
AStarSolveFor(heap, m, closed, current, p, goal, i, w, h) ==
    IF i > Len(SolveDirections) THEN heap
    ELSE LET next_pos == <<current[1] + SolveDirections[i][1],
                           current[2] + SolveDirections[i][2]>>
         IN AStarSolveFor(
                IF AStarSolveCanPush(m, closed, next_pos, w, h)
                THEN Append(heap, <<AStarSolveF(p, next_pos, goal), next_pos,
                                    Append(p, next_pos)>>)
                ELSE heap,
                m, closed, current, p, goal, i + 1, w, h)

\* open_set = [(0, start, [start])]; closed_set = set()
AStarSolveBegin ==
    /\ alg = "astar_solve" /\ pc = "start"
    /\ open_set' = << <<0, start, <<start>>>> >>
    /\ closed_set' = {}
    /\ pc' = "run"
    /\ UNCHANGED <<state, history, alg, width, height, maze, stack, queue, visited, came_from, g_score,
                   f_score, walls, frontier, start, end, path, result>>

\* f, current, path = heappop(open_set); current == end: return path
AStarSolveFound ==
    /\ alg = "astar_solve" /\ pc = "run"
    /\ open_set # <<>>
    /\ LET i == SolveHeapMinIndex(open_set)
       IN /\ open_set[i][2] = end
          /\ result' = open_set[i][3]
          /\ open_set' = RemoveAt(open_set, i)
    /\ pc' = "done"
    /\ UNCHANGED <<state, history, alg, width, height, maze, stack, queue, visited, came_from, g_score,
                   f_score, closed_set, walls, frontier, start, end, path>>

\* f, current, path = open_set[0] in place of heappop(open_set): the entry of a
\* closed cell stays at the head of the heap
AStarSolveSkipPeek ==
    /\ alg = "astar_solve" /\ pc = "run"
    /\ open_set # <<>>
    /\ LET i == SolveHeapMinIndex(open_set)
       IN /\ open_set[i][2] # end
          /\ open_set[i][2] \in closed_set
    /\ UNCHANGED vars

\* f, current, path = heappop(open_set); current in closed_set: continue
AStarSolveSkip ==
    /\ alg = "astar_solve" /\ pc = "run"
    /\ open_set # <<>>
    /\ LET i == SolveHeapMinIndex(open_set)
       IN /\ open_set[i][2] # end
          /\ open_set[i][2] \in closed_set
          /\ open_set' = RemoveAt(open_set, i)
    /\ UNCHANGED <<state, history, alg, pc, width, height, maze, stack, queue, visited, came_from, g_score,
                   f_score, closed_set, walls, frontier, start, end, path, result>>

\* f, current, path = heappop(open_set); closed_set.add(current); push the
\* open neighbours
AStarSolveExpand ==
    /\ alg = "astar_solve" /\ pc = "run"
    /\ open_set # <<>>
    /\ LET i == SolveHeapMinIndex(open_set)
           current == open_set[i][2]
       IN /\ current # end
          /\ current \notin closed_set
          /\ closed_set' = closed_set \cup {current}
          /\ open_set' = AStarSolveFor(RemoveAt(open_set, i), maze, closed_set', current,
                                       open_set[i][3], end, 1, width, height)
    /\ UNCHANGED <<state, history, alg, pc, width, height, maze, stack, queue, visited, came_from, g_score,
                   f_score, walls, frontier, start, end, path, result>>

\* open_set is empty: return []
AStarSolveFail ==
    /\ alg = "astar_solve" /\ pc = "run"
    /\ open_set = <<>>
    /\ result' = <<>>
    /\ pc' = "done"
    /\ UNCHANGED <<state, history, alg, width, height, maze, stack, queue, visited, open_set, came_from,
                   g_score, f_score, closed_set, walls, frontier, start, end, path>>

----------------------------------------------------------------------------
(* PrimMazeGenerator.solve (generators/prim_generator.py).  A frame of dfs *)
(* is [current, i]: its argument and the index of the direction the for    *)
(* loop takes next.  A step is the innermost loop running up to its next   *)
(* call or its end.  A call that returns True makes every caller return    *)
(* True at once, path untouched.                                           *)

\* 0 <= next_x < len(maze[0]) and 0 <= next_y < len(maze) and
\* maze[next_y][next_x] == 0 and next_pos not in visited
PrimSolveCanStep(m, vis, next_pos, w, h) ==
    /\ InBounds(next_pos[1], next_pos[2], w, h)
    /\ m[next_pos[2]][next_pos[1]] = PASSAGE
    /\ next_pos \notin vis

\* the index of the first direction from the i-th on the for loop of
\* dfs(current) steps in; 0 when none
PrimSolveNextStep(m, vis, current, i, w, h) ==
    LET C == {j \in i..Len(SolveDirections) :
                 PrimSolveCanStep(m, vis, <<current[1] + SolveDirections[j][1],
                                            current[2] + SolveDirections[j][2]>>, w, h)}
    IN IF C = {} THEN 0 ELSE CHOOSE j \in C : \A k \in C : j <= k

\* path.append(start); dfs(start)
PrimSolveBegin ==
    /\ alg = "prim_solve" /\ pc = "start"
    /\ path' = <<start>>
    /\ IF start = end
       THEN /\ result' = path'
            /\ pc' = "done"
            /\ UNCHANGED <<visited, stack>>
       ELSE /\ visited' = {start}
            /\ stack' = <<[current |-> start, i |-> 1]>>
            /\ pc' = "run"
            /\ UNCHANGED result
    /\ UNCHANGED <<state, history, alg, width, height, maze, queue, open_set, came_from, g_score,
                   f_score, closed_set, walls, frontier, start, end>>

\* the for loop reaches an open cell not in visited: path.append(next_pos);
\* dfs(next_pos) returns True at end (and solve returns path), else it adds
\* the cell to visited and loops
PrimSolveRecurse ==
    /\ alg = "prim_solve" /\ pc = "run"
    /\ LET top == stack[Len(stack)]
           j == PrimSolveNextStep(maze, visited, top.current, top.i, width, height)
           next_pos == <<top.current[1] + SolveDirections[j][1],
                         top.current[2] + SolveDirections[j][2]>>
       IN /\ j # 0
          /\ path' = Append(path, next_pos)
          /\ IF next_pos = end
             THEN /\ stack' = <<>>
                  /\ result' = path'
                  /\ pc' = "done"
                  /\ UNCHANGED visited
             ELSE /\ visited' = visited \cup {next_pos}
                  /\ stack' = Append([stack EXCEPT ![Len(stack)].i = j + 1],
                                     [current |-> next_pos, i |-> 1])
                  /\ UNCHANGED <<result, pc>>
    /\ UNCHANGED <<state, history, alg, width, height, maze, queue, open_set, came_from, g_score,
                   f_score, closed_set, walls, frontier, start, end>>

\* the for loop ends: dfs returns False and its caller does path.pop(); when
\* it was the outermost call, solve returns path
PrimSolveBacktrack ==
    /\ alg = "prim_solve" /\ pc = "run"
    /\ LET top == stack[Len(stack)]
       IN PrimSolveNextStep(maze, visited, top.current, top.i, width, height) = 0
    /\ stack' = SubSeq(stack, 1, Len(stack) - 1)
    /\ IF Len(stack) = 1
       THEN result' = path /\ pc' = "done" /\ UNCHANGED path
       ELSE path' = SubSeq(path, 1, Len(path) - 1) /\ UNCHANGED <<result, pc>>
    /\ UNCHANGED <<state, history, alg, width, height, maze, queue, visited, open_set, came_from, g_score,
                   f_score, closed_set, walls, frontier, start, end>>

SolveNext ==
    \/ DFSSolveBegin \/ DFSSolveRecurse \/ DFSSolveBacktrack \/ DFSSolveUnwind
    \/ BFSSolveBegin \/ BFSSolveFound \/ BFSSolveExpand \/ BFSSolveFail
    \/ AStarSolveBegin \/ AStarSolveFound \/ AStarSolveSkip \/ AStarSolveExpand
    \/ AStarSolveFail
    \/ PrimSolveBegin \/ PrimSolveRecurse \/ PrimSolveBacktrack

SpecSolve == SolveInit /\ [][SolveNext]_vars

----------------------------------------------------------------------------
(* Claims about the solvers.                                               *)

\* C7: for every grid of 0/1 cells, cycles and open areas included, and every
\* pair of connected PASSAGE cells start, end, BFSMazeGenerator.solve and
\* AStarMazeGenerator.solve each return a path whose length is the number of
\* cells of a shortest 4-adjacent PASSAGE route from start to end (so the
\* two solvers return paths of equal length).
SolveShortest ==
    (alg \in {"bfs_solve", "astar_solve"} /\ pc = "done") =>
        LET P == PassageCells(maze, width, height)
        IN (start \in P /\ end \in P /\ ShortestCells(P, start, end) # 0) =>
               Len(result) = ShortestCells(P, start, end)

\* A* has solved the open 3 x 3 grid from corner to corner with 5 cells
SolveShortestWitness ==
    /\ alg = "astar_solve" /\ pc = "done"
    /\ width = 3 /\ height = 3
    /\ PassageCells(maze, width, height) = Cells(width, height)
    /\ start = <<0, 0>> /\ end = <<2, 2>>
    /\ Len(result) = 5

\* C8: for every grid and every PASSAGE start and PASSAGE end, every
\* non-empty path the DFS, BFS and A* solvers return has each consecutive
\* pair of positions 4-adjacent and each position an in-bounds PASSAGE cell.
SolvePathValid ==
    (alg \in {"dfs_solve", "bfs_solve", "astar_solve"} /\ pc = "done") =>
        LET P == PassageCells(maze, width, height)
        IN (start \in P /\ end \in P /\ result # <<>>) =>
               /\ \A i \in 1..(Len(result) - 1) : Adjacent4(result[i], result[i + 1])
               /\ \A i \in 1..Len(result) : result[i] \in P

\* the DFS solver has returned a path of 7 cells around a wall
SolvePathValidWitness ==
    /\ alg = "dfs_solve" /\ pc = "done"
    /\ start \in PassageCells(maze, width, height)
    /\ end \in PassageCells(maze, width, height)
    /\ Cardinality(PassageCells(maze, width, height)) < 9
    /\ Len(result) = 7

\* C9: for every grid and every pair of PASSAGE cells start # end in
\* different 4-connected components of the PASSAGE cells, the DFS, BFS and
\* A* solvers return the empty path.
SolveUnreachableEmpty ==
    (alg \in {"dfs_solve", "bfs_solve", "astar_solve"} /\ pc = "done") =>
        LET P == PassageCells(maze, width, height)
        IN (start \in P /\ end \in P /\ start # end /\ end \notin Closure({start}, P)) =>
               result = <<>>

\* the BFS solver has returned from a grid whose PASSAGE start has two more
\* cells in its component and whose PASSAGE end lies in another one
SolveUnreachableEmptyWitness ==
    /\ alg = "bfs_solve" /\ pc = "done"
    /\ LET P == PassageCells(maze, width, height)
       IN /\ start \in P /\ end \in P
          /\ end \notin Closure({start}, P)
          /\ Cardinality(Closure({start}, P)) = 3
    /\ result = <<>>

\* C10: for every solver (DFS, BFS, A* of algorithms/maze_algorithms.py and
\* Prim of generators/prim_generator.py), every grid and every in-bounds
\* position p, WALL or PASSAGE, solve(grid, p, p) returns exactly [p].
SolveSamePosition ==
    (alg \in Solvers /\ pc = "done" /\ start = end) => result = <<start>>

\* the Prim solver has returned from solve(grid, p, p) with p a WALL cell
SolveSamePositionWitness ==
    /\ alg = "prim_solve" /\ pc = "done"
    /\ start = end
    /\ maze[start[2]][start[1]] = WALL
    /\ result = <<start>>

\* C11: for every grid and every start # end where end is not reachable from
\* start through 4-adjacent PASSAGE cells, PrimMazeGenerator.solve of
\* generators/prim_generator.py returns the empty path (which the one-cell
\* path [start] of start = end can be told from).
PrimSolveUnreachableEmpty ==
    (alg = "prim_solve" /\ pc = "done") =>
        LET P == PassageCells(maze, width, height)
        IN (start # end /\ end \notin Closure({start}, P \cup {start})) =>
               result = <<>>

\* C12: for the DFS, BFS and A* solvers and every grid, solve called with
\* start # end of which one is an in-bounds WALL cell returns the empty path
\* (so no returned path holds a WALL cell, also when the WALL start has a
\* PASSAGE neighbour end is reachable from).  solve(grid, p, p) is C10's case.
SolveWallEndpointEmpty ==
    (alg \in {"dfs_solve", "bfs_solve", "astar_solve"} /\ pc = "done") =>
        ((start # end /\ (maze[start[2]][start[1]] = WALL \/ maze[end[2]][end[1]] = WALL)) =>
             result = <<>>)

\* C13: no solver mutates the grid: for every solver, every grid and every
\* start and end, no step of solve changes a cell of maze, so the grid when
\* solve returns equals cell for cell the grid passed in, path found or not.
SolveKeepsGrid == [][maze' = maze]_vars

\* the DFS solver has returned [] after entering four cells or more
SolveKeepsGridWitness ==
    /\ alg = "dfs_solve" /\ pc = "done"
    /\ Cardinality(visited) >= 4
    /\ result = <<>>

----------------------------------------------------------------------------
(* generate called with any width and height, valid (>= 3) or not.         *)

GenAnySizeInit ==
    /\ \/ alg = "dfs_generate" /\ width \in 0..MaxDFSGenW /\ height \in 0..MaxDFSGenH
       \/ alg = "bfs_generate" /\ width \in 0..MaxBFSGenW /\ height \in 0..MaxBFSGenH
       \/ alg = "astar_generate" /\ width \in 0..MaxAStarGenW /\ height \in 0..MaxAStarGenH
       \/ alg = "wallprim_generate" /\ width \in 0..MaxWallPrimW
                                    /\ height \in 0..MaxWallPrimH
       \/ alg = "prim_generate" /\ width \in 0..MaxPrimW /\ height \in 0..MaxPrimH
    /\ pc = "start"
    /\ maze = WallGrid(width, height)
    /\ Idle

GenNext == DFSGenNext \/ BFSGenNext \/ AStarGenNext \/ WallPrimNext \/ PrimNext

SpecGenAnySize == GenAnySizeInit /\ [][GenNext]_vars

\* C14: every generator rejects an invalid configuration: generate called
\* with width < 3 or height < 3 (0, 1 and 2 included) never returns a grid.
GenRejectsSmall == (width < 3 \/ height < 3) => pc # "done"

----------------------------------------------------------------------------
(* The application (app.py): the global state, the registry of             *)
(* ControlPanel and the handlers of its buttons and of the algorithm       *)
(* selector.  At the event loop alg = "app" and pc = "idle"; a handler     *)
(* that calls a generator or a solver runs that routine to its end before  *)
(* anything else happens, and an exception no handler catches ends the     *)
(* program (pc = "crashed").  The wall-clock entries of state.stats are    *)
(* left out.                                                               *)

\* the members of app.py's AlgorithmType, the nested class Meta included
AlgorithmType ==
    {"Meta", "DFS", "BFS", "ASTAR", "PRIM", "KRUSKAL", "WILSON", "ALDOUS_BRODER",
     "RECURSIVE_DIVISION", "HUNT_AND_KILL"}

\* self.algorithms of ControlPanel: DFSMazeGenerator is the class app.py
\* defines itself, whose generate and solve are "pass"; BFSMazeGenerator is
\* the class of algorithms/maze_algorithms.py
algorithms ==
    [a \in {"DFS", "BFS"} |-> IF a = "DFS" THEN "app.DFSMazeGenerator"
                                            ELSE "BFSMazeGenerator"]

\* state = MazeState(), the default 20 x 20 grid with end_pos = (18, 18)
\* scaled down to w x h
MazeState(w, h) ==
    [width |-> w, height |-> h, algorithm |-> "DFS", maze |-> WallGrid(0, 1),
     running |-> FALSE, paused |-> FALSE, solution_path |-> <<>>,
     visited_cells |-> {}, start_pos |-> <<1, 1>>, end_pos |-> <<w - 2, h - 2>>,
     path_length |-> 0]

AppInit ==
    /\ alg = "app"
    /\ pc = "idle"
    /\ \E w \in 3..MaxAppW, h \in 3..MaxAppH : state = MazeState(w, h)
    /\ width = 0
    /\ height = 0
    /\ maze = <<>>
    /\ stack = <<>>
    /\ queue = <<>>
    /\ visited = {}
    /\ open_set = <<>>
    /\ came_from = <<>>
    /\ g_score = <<>>
    /\ f_score = <<>>
    /\ closed_set = {}
    /\ walls = <<>>
    /\ frontier = <<>>
    /\ start = NoPos
    /\ end = NoPos
    /\ path = <<>>
    /\ result = NoResult
    /\ history = NoHistory

\* the called routine has returned or raised: its locals are gone
AppEngineReturn ==
    /\ alg' = "app"
    /\ width' = 0
    /\ height' = 0
    /\ maze' = <<>>
    /\ stack' = <<>>
    /\ queue' = <<>>
    /\ visited' = {}
    /\ open_set' = <<>>
    /\ came_from' = <<>>
    /\ g_score' = <<>>
    /\ f_score' = <<>>
    /\ closed_set' = {}
    /\ walls' = <<>>
    /\ frontier' = <<>>
    /\ start' = NoPos
    /\ end' = NoPos
    /\ path' = <<>>
    /\ result' = NoResult

\* AlgorithmSelector.handle_event: an option is clicked
AppSelectAlgorithm ==
    /\ alg = "app" /\ pc = "idle"
    /\ \E algo \in AlgorithmType : state' = [state EXCEPT !.algorithm = algo]
    /\ UNCHANGED <<alg, pc, width, height, maze, stack, queue, visited, open_set,
                   came_from, g_score, f_score, closed_set, walls, frontier,
                   start, end, path, result, history>>

\* generate_maze without its "if not state.running" test
AppGenerateMazeNoRunningTest ==
    /\ alg = "app" /\ pc = "idle"
    /\ IF state.algorithm \notin DOMAIN algorithms
       THEN /\ state' = [state EXCEPT !.running = TRUE]
            /\ history' = [history EXCEPT !.generates = @ + 1]
            /\ UNCHANGED <<alg, pc, width, height, maze>>
       ELSE IF algorithms[state.algorithm] = "app.DFSMazeGenerator"
       THEN /\ state' = [state EXCEPT !.running = TRUE, !.maze = None]
            /\ history' = [history EXCEPT !.generates = @ + 1, !.replaced = @ + 1]
            /\ UNCHANGED <<alg, pc, width, height, maze>>
       ELSE /\ state' = [state EXCEPT !.running = TRUE]
            /\ history' = [history EXCEPT !.generates = @ + 1]
            /\ alg' = "bfs_generate"
            /\ pc' = "start"
            /\ width' = state.width
            /\ height' = state.height
            /\ maze' = WallGrid(state.width, state.height)
    /\ UNCHANGED <<stack, queue, visited, open_set, came_from, g_score, f_score,
                   closed_set, walls, frontier, start, end, path, result>>

\* ControlPanel.generate_maze: nothing while state.running; else running is
\* set and the registry is asked for state.algorithm: no entry is logged,
\* app.py's DFSMazeGenerator.generate returns None, BFSMazeGenerator.generate
\* is called
AppGenerateMaze ==
    /\ alg = "app" /\ pc = "idle"
    /\ IF state.running
       THEN UNCHANGED vars
       ELSE IF state.algorithm \notin DOMAIN algorithms
       THEN /\ state' = [state EXCEPT !.running = TRUE]
            /\ history' = [history EXCEPT !.generates = @ + 1]
            /\ UNCHANGED <<alg, pc, width, height, maze>>
       ELSE IF algorithms[state.algorithm] = "app.DFSMazeGenerator"
       THEN /\ state' = [state EXCEPT !.running = TRUE, !.maze = None]
            /\ history' = [history EXCEPT !.generates = @ + 1, !.replaced = @ + 1]
            /\ UNCHANGED <<alg, pc, width, height, maze>>
       ELSE /\ state' = [state EXCEPT !.running = TRUE]
            /\ history' = [history EXCEPT !.generates = @ + 1]
            /\ alg' = "bfs_generate"
            /\ pc' = "start"
            /\ width' = state.width
            /\ height' = state.height
            /\ maze' = WallGrid(state.width, state.height)
    /\ UNCHANGED <<stack, queue, visited, open_set, came_from, g_score, f_score,
                   closed_set, walls, frontier, start, end, path, result>>

\* state.maze = algorithm.generate(state.width, state.height): the call has
\* returned, or raised
AppGenerateMazeReturn ==
    /\ alg = "bfs_generate" /\ pc \in {"done", "raised"}
    /\ IF pc = "done"
       THEN /\ state' = [state EXCEPT !.maze = maze]
            /\ history' = [history EXCEPT !.replaced = @ + 1]
            /\ pc' = "idle"
       ELSE UNCHANGED <<state, history>> /\ pc' = "crashed"
    /\ AppEngineReturn

\* ControlPanel.solve_maze: nothing unless state.running and not
\* state.paused; else the registry is asked for state.algorithm: no entry is
\* logged, app.py's DFSMazeGenerator.solve returns None and
\* len(state.solution_path) raises TypeError, BFSMazeGenerator.solve is called
AppSolveMaze ==
    /\ alg = "app" /\ pc = "idle"
    /\ IF ~(state.running /\ ~state.paused)
       THEN UNCHANGED vars
       ELSE IF state.algorithm \notin DOMAIN algorithms
       THEN UNCHANGED vars
       ELSE IF algorithms[state.algorithm] = "app.DFSMazeGenerator"
       THEN /\ state' = [state EXCEPT !.solution_path = None]
            /\ pc' = "crashed"
            /\ UNCHANGED <<alg, width, height, maze, start, end>>
       ELSE /\ alg' = "bfs_solve"
            /\ pc' = "start"
            /\ maze' = state.maze
            /\ width' = IF state.maze = None THEN 0
                        ELSE Cardinality(DOMAIN state.maze[0])
            /\ height' = IF state.maze = None THEN 0
                         ELSE Cardinality(DOMAIN state.maze)
            /\ start' = state.start_pos
            /\ end' = state.end_pos
            /\ UNCHANGED state
    /\ UNCHANGED <<stack, queue, visited, open_set, came_from, g_score, f_score,
                   closed_set, walls, frontier, path, result, history>>

\* state.solution_path = algorithm.solve(...); state.stats["path_length"] =
\* len(state.solution_path): the call has returned, or raised
AppSolveMazeReturn ==
    /\ alg = "bfs_solve" /\ pc \in {"done", "raised"}
    /\ IF pc = "done"
       THEN /\ state' = [state EXCEPT !.solution_path = result,
                                      !.path_length = Len(result)]
            /\ pc' = "idle"
       ELSE UNCHANGED state /\ pc' = "crashed"
    /\ UNCHANGED history
    /\ AppEngineReturn

\* reset_maze without its state.solution_path = []
AppResetMazeKeepsPath ==
    /\ alg = "app" /\ pc = "idle"
    /\ state' = [state EXCEPT !.running = FALSE, !.paused = FALSE,
                              !.visited_cells = {}, !.path_length = 0]
    /\ history' = [history EXCEPT !.generates = 0, !.replaced = 0]
    /\ UNCHANGED <<alg, pc, width, height, maze, stack, queue, visited, open_set,
                   came_from, g_score, f_score, closed_set, walls, frontier,
                   start, end, path, result>>

\* ControlPanel.reset_maze (with MazeState.reset_stats)
AppResetMaze ==
    /\ alg = "app" /\ pc = "idle"
    /\ state' = [state EXCEPT !.running = FALSE, !.paused = FALSE,
                              !.solution_path = <<>>, !.visited_cells = {},
                              !.path_length = 0]
    /\ history' = [history EXCEPT !.generates = 0, !.replaced = 0]
    /\ UNCHANGED <<alg, pc, width, height, maze, stack, queue, visited, open_set,
                   came_from, g_score, f_score, closed_set, walls, frontier,
                   start, end, path, result>>

AppNext ==
    \/ AppSelectAlgorithm
    \/ AppGenerateMaze \/ AppGenerateMazeReturn
    \/ AppSolveMaze \/ AppSolveMazeReturn
    \/ AppResetMaze
    \/ BFSGenBegin \/ BFSGenIterate \/ BFSGenReturn
    \/ BFSSolveBegin \/ BFSSolveFound \/ BFSSolveExpand \/ BFSSolveFail

SpecApp == AppInit /\ [][AppNext]_vars

\* C15: the registry is total and fail-fast: every identifier of
\* AlgorithmType resolves in ControlPanel.algorithms, so an accepted Generate
\* (the step that sets state.running) either finds its identifier registered
\* or raises; it never returns normally with state.running set and no
\* generator called.
RegistryTotalFailFast ==
    [][(~state.running /\ state'.running) =>
           (state.algorithm \in DOMAIN algorithms \/ pc' = "crashed")]_vars

----------------------------------------------------------------------------
(* generate called on any of the five generators with width, height >= 3.  *)

GenInit == DFSGenInit \/ BFSGenInit \/ AStarGenInit \/ WallPrimInit \/ PrimInit

SpecGen == GenInit /\ [][GenNext]_vars

Generators ==
    {"dfs_generate", "bfs_generate", "astar_generate", "wallprim_generate",
     "prim_generate"}

\* C16: in every grid a generator returns, rooms are carved only at positions
\* whose x and y are both even and connecting walls only between two such
\* rooms, so no cell whose x and y are both odd is PASSAGE.
GenEvenRooms ==
    (alg \in Generators /\ pc = "done") =>
        \A p \in PassageCells(maze, width, height) : ~(p[1] % 2 = 1 /\ p[2] % 2 = 1)

\* C17: corridors are one cell wide: at every step of every generator (DFS,
\* BFS, A*, both Prim implementations) and in the grid it returns, no 2 x 2
\* block of cells is entirely PASSAGE.
GenNoOpenBlock ==
    alg \in Generators =>
        \A x \in 0..(width - 2), y \in 0..(height - 2) :
            ~(/\ maze[y][x] = PASSAGE /\ maze[y][x + 1] = PASSAGE
              /\ maze[y + 1][x] = PASSAGE /\ maze[y + 1][x + 1] = PASSAGE)

\* the A* generator has returned a grid whose PASSAGE cells close a ring
GenNoOpenBlockWitness ==
    /\ alg = "astar_generate" /\ pc = "done"
    /\ HasCycle(PassageCells(maze, width, height))

\* C18: even dimensions are rounded down to the nearest odd: in the grid a
\* generator returns, no cell of the last column (x = width - 1) is PASSAGE
\* when width is even, and no cell of the last row (y = height - 1) is
\* PASSAGE when height is even.
GenEvenRoundedDown ==
    (alg \in Generators /\ pc = "done") =>
        /\ width % 2 = 0 => \A y \in 0..(height - 1) : maze[y][width - 1] = WALL
        /\ height % 2 = 0 => \A x \in 0..(width - 1) : maze[height - 1][x] = WALL

----------------------------------------------------------------------------
(* AStarMazeGenerator.generate called a second time with the width and     *)
(* height of the first call.                                               *)

\* the first call has returned; generate(width, height) is called again:
\* maze = [[1 ...]]; the caller keeps the grid and the pops of the first call
AStarGenAgain ==
    /\ alg = "astar_generate" /\ pc = "done"
    /\ history.returned = <<>>
    /\ history' = [history EXCEPT
                       !.popped = <<>>,
                       !.returned = <<[maze |-> maze, popped |-> history.popped]>>]
    /\ maze' = WallGrid(width, height)
    /\ pc' = "start"
    /\ UNCHANGED <<state, alg, width, height, stack, queue, visited, open_set,
                   came_from, g_score, f_score, closed_set, walls, frontier,
                   start, end, path, result>>

AStarGenTwiceNext == AStarGenNext \/ AStarGenAgain

SpecAStarGenTwice == AStarGenInit /\ [][AStarGenTwiceNext]_vars

----------------------------------------------------------------------------
(* Every call runs to completion on the calling thread: the interpreter    *)
(* keeps executing the call's next step as long as there is one.           *)

MaxCallCells == 6

\* a generate call, or a solve call on a grid of MaxCallCells cells at most
CallInit == GenInit \/ (SolveInit /\ width * height <= MaxCallCells)

CallNext == GenNext \/ SolveNext

SpecCall == CallInit /\ [][CallNext]_vars /\ WF_vars(CallNext)

----------------------------------------------------------------------------
(* The depth of the recursion of DFSMazeGenerator.generate.                *)

\* C21 as stated: the depth of nested carve_path calls never exceeds
\* (width/2) * (height/2), read as the exact quotient width * height / 4
DFSGenDepthQuarter ==
    alg = "dfs_generate" => 4 * Len(stack) <= width * height

\* C21: the depth of nested carve_path calls never exceeds the number of
\* rooms, ceil(width/2) * ceil(height/2), and the calls on the stack are for
\* different rooms, for every random start and shuffle outcome.
DFSGenDepthRooms ==
    alg = "dfs_generate" =>
        /\ Len(stack) <= ((width + 1) \div 2) * ((height + 1) \div 2)
        /\ \A i, j \in 1..Len(stack) :
              (stack[i].x = stack[j].x /\ stack[i].y = stack[j].y) => i = j

\* on a 5 x 5 grid carve_path is nested nine deep, one call for each room
DFSGenDepthRoomsWitness ==
    /\ alg = "dfs_generate" /\ pc = "run"
    /\ width = 5 /\ height = 5
    /\ Len(stack) = 9

----------------------------------------------------------------------------
(* The connecting walls AStarMazeGenerator.generate carves.                *)

\* C22: in the grid AStarMazeGenerator.generate returns, every cleared
\* connecting-wall cell (a PASSAGE cell that is no room) lies between two
\* rooms that are both PASSAGE: no carved wall leads into a room that was
\* pushed but never popped and is still WALL.
AStarGenWallsBetweenRooms ==
    (alg = "astar_generate" /\ pc = "done") =>
        LET P == PassageCells(maze, width, height)
            R == RoomsFrom(<<1, 1>>, width, height)
        IN \A c \in P \ R :
              \E p, q \in P \cap R :
                 /\ p # q
                 /\ p[1] + q[1] = 2 * c[1] /\ p[2] + q[2] = 2 * c[2]
                 /\ Adjacent4(p, c) /\ Adjacent4(c, q)

----------------------------------------------------------------------------
(* The order in which AStarMazeGenerator.generate pops its open set.  The  *)
(* entries of open_set stand in the order they were pushed.                *)

\* the index of the entry pushed earliest among those whose f is least
EarliestMinF(heap) ==
    CHOOSE i \in 1..Len(heap) :
        /\ \A j \in 1..Len(heap) : heap[i][1] <= heap[j][1]
        /\ \A j \in 1..(i - 1) : heap[j][1] > heap[i][1]

\* C23: in AStarMazeGenerator.generate ties in priority are broken by
\* insertion order: every pop takes, of the entries with the least f, the one
\* pushed earliest.
AStarGenTiesByInsertion ==
    [][(alg = "astar_generate" /\ Len(history'.popped) = Len(history.popped) + 1) =>
           history'.popped[Len(history'.popped)] =
               open_set[EarliestMinF(open_set)][2]]_vars

----------------------------------------------------------------------------
(* The queue and the visited set of BFSMazeGenerator.solve.                *)

\* C24: in BFSMazeGenerator.solve visited is populated at enqueue time: after
\* every step the positions in the queue are different from one another and
\* are in visited, a step enqueues only positions that were not in visited
\* (so no position is enqueued twice), and positions are dequeued in
\* non-decreasing path length, the path length of a queued position being
\* the number of cells of a shortest route to it from start.
BFSSolveVisitedAtEnqueue ==
    [][alg = "bfs_solve" =>
          LET kept == IF queue = <<>> THEN 0 ELSE Len(queue) - 1
              open == PassageCells(maze, width, height) \cup {start}
          IN /\ \A i, j \in 1..Len(queue') : queue'[i][1] = queue'[j][1] => i = j
             /\ \A i \in 1..Len(queue') : queue'[i][1] \in visited'
             /\ \A i \in (kept + 1)..Len(queue') : queue'[i][1] \notin visited
             /\ visited' = visited \cup {queue'[i][1] : i \in (kept + 1)..Len(queue')}
             /\ \A i \in 1..(Len(queue') - 1) : Len(queue'[i][2]) <= Len(queue'[i + 1][2])
             /\ (queue # <<>> /\ queue' # <<>>) =>
                    Len(Head(queue)[2]) <= Len(Head(queue')[2])
             /\ \A i \in 1..Len(queue') :
                    Len(queue'[i][2]) = ShortestCells(open, start, queue'[i][1])]_vars

\* on the 2 x 2 grid with all cells open, where two routes lead to the far
\* corner, the queue holds positions of path lengths 2 and 3
BFSSolveVisitedAtEnqueueWitness ==
    /\ alg = "bfs_solve" /\ pc = "run"
    /\ width = 2 /\ height = 2
    /\ \A c \in Cells(width, height) : maze[c[2]][c[1]] = PASSAGE
    /\ Len(queue) = 2
    /\ Len(queue[1][2]) = 2 /\ Len(queue[2][2]) = 3
    /\ Cardinality(visited) = 4

----------------------------------------------------------------------------
(* The shape of the paths the solvers return.                              *)

\* C25: every non-empty path a solver (DFS, BFS, A*, Prim) returns has start
\* as its first element and end as its last and holds no position twice, for
\* every grid and every start and end.
SolvePathSimple ==
    (alg \in Solvers /\ pc = "done" /\ result # <<>>) =>
        /\ result[1] = start
        /\ result[Len(result)] = end
        /\ \A i, j \in 1..Len(result) : result[i] = result[j] => i = j

----------------------------------------------------------------------------
(* Claims about the application's handlers.                                *)

\* C26: with DFS selected, an accepted generate_maze (one that finds
\* state.running false and sets it) stores in state.maze a grid of
\* state.height rows by state.width columns of WALL/PASSAGE cells: the
\* registry entry of DFS is an implemented generator, never a stub that
\* returns no grid.
AppDFSGeneratesGrid ==
    [][(state.algorithm = "DFS" /\ ~state.running /\ state'.running) =>
           state'.maze \in Grids(state.width, state.height)]_vars

\* a step in which Solve takes effect: solve_maze calls a solver (and stops
\* on what the stub returned), or the solver returns to solve_maze, which
\* stores its result in state.solution_path and the path_length statistic
AppSolveTakesEffect ==
    \/ alg = "app" /\ pc = "idle" /\ (alg' = "bfs_solve" \/ pc' = "crashed")
    \/ alg = "bfs_solve" /\ alg' = "app"

\* C27: generate_maze changes nothing while state.running is true and
\* solve_maze changes nothing unless state.running is true and state.paused
\* is false; so state.maze is replaced at most once between two Resets, and
\* no Solve takes effect before the first Generate or between a Reset and
\* the next Generate.
AppGuards ==
    [][/\ (alg = "app" /\ state.running) =>
              (state'.maze = state.maze /\ alg' # "bfs_generate")
       /\ (alg = "app" /\ ~(state.running /\ ~state.paused)) =>
              ~AppSolveTakesEffect
       /\ history'.replaced <= 1
       /\ AppSolveTakesEffect => history.generates >= 1]_vars

\* after Generate, Solve, Reset and a second Generate with BFS selected, a
\* solver is running on the second maze
AppGuardsWitness ==
    /\ alg = "bfs_solve" /\ pc = "run"
    /\ state.running
    /\ history.generates = 1 /\ history.replaced = 1
    /\ state.solution_path = <<>> /\ state.path_length = 0
    /\ state.maze \in Grids(4, 3)
    /\ state.end_pos = <<2, 1>>

\* C28: the displayed solution is never stale: a non-empty
\* state.solution_path is either stored in this step by the solver that was
\* run on state.maze, or it was there before and state.maze has not changed
\* since; and the path_length statistic equals its length.
AppSolutionFresh ==
    [][(pc' # "crashed" /\ state'.solution_path # <<>>) =>
           /\ state'.path_length = Len(state'.solution_path)
           /\ state'.maze = state.maze
           /\ IF alg = "bfs_solve" /\ alg' = "app"
              THEN maze = state.maze /\ state'.solution_path = result
              ELSE state'.solution_path = state.solution_path]_vars

\* Generate and Solve with BFS selected on the 4 x 3 grid have left the
\* path (1, 1), (2, 1) on display
AppSolutionFreshWitness ==
    /\ alg = "app" /\ pc = "idle"
    /\ state.maze \in Grids(4, 3)
    /\ state.solution_path = << <<1, 1>>, <<2, 1>> >>
    /\ state.path_length = 2

\* C29: with the default state (width and height even as the default 20 x 20,
\* start_pos = (1, 1), end_pos = (width - 2, height - 2) as the default
\* (18, 18)) and BFS selected, the end cell is WALL in every maze the BFS
\* generator stores, and every Solve on such a maze sets state.solution_path
\* to the empty list and path_length to 0.
AppDefaultEndIsWall ==
    [][(state'.width % 2 = 0 /\ state'.height % 2 = 0) =>
           /\ state'.maze \in Grids(state'.width, state'.height) =>
                  state'.maze[state'.end_pos[2]][state'.end_pos[1]] = WALL
           /\ (alg = "bfs_solve" /\ alg' = "app"
                  /\ state.maze \in Grids(state.width, state.height)) =>
                  /\ pc' = "idle"
                  /\ state'.solution_path = <<>>
                  /\ state'.path_length = 0]_vars

\* on a generated 6 x 6 maze the BFS solver has searched from (1, 1) for
\* (4, 4), has visited the 17 carved cells and returns the empty list
AppDefaultEndIsWallWitness ==
    /\ alg = "bfs_solve" /\ pc = "done"
    /\ state.width = 6 /\ state.height = 6
    /\ state.algorithm = "BFS"
    /\ state.maze \in Grids(6, 6)
    /\ start = <<1, 1>> /\ end = <<4, 4>>
    /\ Cardinality(visited) = 17
    /\ result = <<>>

====
